---- MODULE Spec2Model ----
(***************************************************************************)
(* python-bru: an OpenAPI schema is parsed into an API model               *)
(* (app/openapi/parser.py), the API model is coupled into one Bruno        *)
(* endpoint per (path, method) (app/openapi/coupler.py) and every endpoint *)
(* is rendered to the text of a .bru file (app/bruno/parts.py).            *)
(*                                                                         *)
(* Text is kept as a sequence of lines, a line as a sequence of tokens;    *)
(* Cat(line) is the line's string.  A Python str s is the sequence of the  *)
(* lines of s.split('\n'), so '' is <<EmptyLine>>.                         *)
(*                                                                         *)
(* The classes of app/openapi/parts.py and app/bruno/parts.py are records  *)
(* here: a constructor stores the values it is given.  The field types     *)
(* declared on those classes are not enforced by the model.                *)
(***************************************************************************)
EXTENDS Integers, Sequences, FiniteSets, TLC

(***************************************************************************)
(* Bounds of the model.                                                    *)
(***************************************************************************)
MaxPaths == 2
MaxMethods == 2
MaxEndpoints == 3
MaxRuns == 2
MaxProps == 2
MaxDepth == 2
MaxNesting == 1
MaxInt == 10

(***************************************************************************)
(* Sequences, optional values, Python values.                              *)
(***************************************************************************)
None == <<>>
Some(v) == <<v>>
IsNone(o) == o = <<>>
IsSome(o) == o # <<>>
Get(o) == o[1]

Range(s) == {s[i] : i \in DOMAIN s}

RECURSIVE Cat(_)
Cat(toks) == IF toks = <<>> THEN "" ELSE Head(toks) \o Cat(Tail(toks))

RECURSIVE Flatten(_)
Flatten(ss) == IF ss = <<>> THEN <<>> ELSE Head(ss) \o Flatten(Tail(ss))

\* A JSON / Python scalar: None, an int, a str or a bool.
JNull == [k |-> "null", i |-> 0, s |-> "", b |-> FALSE]
JInt(n) == [k |-> "int", i |-> n, s |-> "", b |-> FALSE]
JStr(t) == [k |-> "str", i |-> 0, s |-> t, b |-> FALSE]
JBool(x) == [k |-> "bool", i |-> 0, s |-> "", b |-> x]

\* bool(v) of Python: None, 0, '' and False are falsy.
Truthy(v) ==
    CASE v.k = "null" -> FALSE
      [] v.k = "int" -> v.i # 0
      [] v.k = "str" -> v.s # ""
      [] v.k = "bool" -> v.b

\* str(v) of Python, as f'{v}' formats it.
PyStr(v) ==
    CASE v.k = "null" -> "None"
      [] v.k = "int" -> ToString(v.i)
      [] v.k = "str" -> v.s
      [] v.k = "bool" -> IF v.b THEN "True" ELSE "False"

(***************************************************************************)
(* Text: '\n'.join, '\n\n'.join, + '\n'.                                   *)
(***************************************************************************)
INDENT == "  "
EmptyLine == <<>>
EmptyText == <<EmptyLine>>

\* not s, for a str s
IsEmptyStr(text) == Len(text) = 1 /\ Cat(text[1]) = ""

JoinNL(texts) == IF texts = <<>> THEN EmptyText ELSE Flatten(texts)

RECURSIVE JoinBlank(_)
JoinBlank(texts) ==
    IF texts = <<>> THEN EmptyText
    ELSE IF Len(texts) = 1 THEN texts[1]
    ELSE texts[1] \o <<EmptyLine>> \o JoinBlank(Tail(texts))

AppendNL(text) == text \o <<EmptyLine>>

\* [f'{INDENT}{line}' for line in lines]
IndentLines(lines) == [i \in DOMAIN lines |-> <<INDENT>> \o lines[i]]

\* The result of a call: err = "" when it returned val, else the exception.
Ok(v) == [err |-> "", val |-> v]
Raise(e) == [err |-> e, val |-> EmptyText]
IsOk(r) == r.err = ""

\* The rest K of a computation, done on the value of r unless r raised.
Bind(r, K(_)) == IF r.err = "" THEN K(r.val) ELSE r

\* The value v under a name.
With(v, K(_)) == K(v)

(***************************************************************************)
(* app/common.py                                                           *)
(***************************************************************************)
\* A value that is a str or a member of RequestBodyType.
PStr(t) == [t |-> "str", v |-> t]
PEnum(m) == [t |-> "RequestBodyType", v |-> m]

RequestBodyTypeValue(m) ==
    CASE m = "NONE" -> "none"
      [] m = "JSON" -> "json"
      [] m = "FORM_URL_ENCODED" -> "formUrlEncoded"

FormContentType == "application/x-www-form-urlencoded"

\* content_type: None, a str or, as the coupler calls it, a RequestBodyType.
from_content_type(content_type) ==
    IF IsNone(content_type) THEN "NONE"
    ELSE IF Get(content_type) = PStr(FormContentType) THEN "FORM_URL_ENCODED"
    ELSE "JSON"

body_block_type(request_type) ==
    CASE request_type = "NONE" -> "none"
      [] request_type = "JSON" -> "json"
      [] request_type = "FORM_URL_ENCODED" -> "form-urlencoded"

\* str.lower() of a member of http.HTTPMethod
MethodLower(m) ==
    CASE m = "GET" -> "get"
      [] m = "POST" -> "post"
      [] m = "PUT" -> "put"
      [] m = "DELETE" -> "delete"
      [] OTHER -> "other"

(***************************************************************************)
(* pathlib.Path: an absolute path is the sequence of its segments, a       *)
(* segment the sequence of its tokens ("{", "}", "." or a run of other     *)
(* characters).                                                            *)
(***************************************************************************)
RECURSIVE SplitSlash(_, _)
SplitSlash(toks, cur) ==
    IF toks = <<>> THEN (IF cur = <<>> THEN <<>> ELSE <<cur>>)
    ELSE IF Head(toks) = "/"
         THEN (IF cur = <<>> THEN <<>> ELSE <<cur>>) \o SplitSlash(Tail(toks), <<>>)
         ELSE SplitSlash(Tail(toks), Append(cur, Head(toks)))

\* pathlib.Path(string): empty segments and a trailing separator are dropped.
PathOf(toks) == SplitSlash(toks, <<>>)

\* str(path)
PathStrToks(path) ==
    IF path = <<>> THEN <<"/">>
    ELSE Flatten([i \in DOMAIN path |-> <<"/">> \o path[i]])

LastDot(seg) ==
    IF \E i \in DOMAIN seg : seg[i] = "."
    THEN CHOOSE i \in DOMAIN seg : seg[i] = "." /\ \A j \in DOMAIN seg : seg[j] = "." => j <= i
    ELSE 0

\* path.stem: the final segment without its last suffix
PathStem(path) ==
    IF path = <<>> THEN ""
    ELSE LET seg == path[Len(path)]
             i == LastDot(seg)
         IN  IF 1 < i /\ i < Len(seg) THEN Cat(SubSeq(seg, 1, i - 1)) ELSE Cat(seg)

(***************************************************************************)
(* app/bruno/parts.py: the target collection model and its rendering.      *)
(***************************************************************************)
\* RequestPayloadItem and its subclasses QueryParameter, BodyProperty and
\* EndpointVar (cls names the class); RequestNestedItem has name and items.
PayloadItem(cls, name, default_value, required, selected, placement, item_type) ==
    [cls |-> cls, name |-> name, default_value |-> default_value,
     required |-> required, selected |-> selected, placement |-> placement,
     item_type |-> item_type, items |-> <<>>]

RequestNestedItem(name, items) ==
    [cls |-> "RequestNestedItem", name |-> name, default_value |-> JNull,
     required |-> FALSE, selected |-> FALSE, placement |-> None,
     item_type |-> "", items |-> items]

IsPayloadItem(x) == x.cls \in {"RequestPayloadItem", "QueryParameter", "BodyProperty", "EndpointVar"}

\* RequestPayloadItem.to_bru
PayloadItemToBru(item) ==
    LET sel == IF item.selected THEN "" ELSE "~"
    IN  <<sel, item.name, ": ",
          IF Truthy(item.default_value) THEN PyStr(item.default_value) ELSE "">>

\* EndpointConfig.to_bru
EndpointConfigToBru(c) ==
    IF IsNone(c.http_method) THEN Raise("AttributeError")
    ELSE Ok(<< <<MethodLower(Get(c.http_method)), " {">>,
               <<INDENT, "url: ", "{{host}}">> \o PathStrToks(c.url) \o <<"/">>,
               <<INDENT, "body: ",
                 IF IsNone(c.body_type) THEN "None" ELSE RequestBodyTypeValue(Get(c.body_type))>>,
               <<INDENT, "auth: ",
                 IF IsNone(c.auth_type) THEN "None" ELSE Get(c.auth_type)>>,
               <<"}">> >>)

\* f'{content_type}'
ContentTypeStr(ct) == IF ct.t = "str" THEN ct.v ELSE "RequestBodyType." \o ct.v

\* RequestHeaders.to_bru
RequestHeadersToBru(h) ==
    IF IsNone(h.content_type) \/ Get(h.content_type) = PStr("") THEN Ok(EmptyText)
    ELSE Ok(<< <<"headers {">>,
               <<INDENT, "Content-Type: ", ContentTypeStr(Get(h.content_type))>>,
               <<"}">> >>)

\* [f'{INDENT}{p.to_bru()}' for p in items]; a RequestNestedItem has no to_bru
ItemsAllLeaves(items) == \A i \in DOMAIN items : IsPayloadItem(items[i])
ItemLines(items) == [i \in DOMAIN items |-> <<INDENT>> \o PayloadItemToBru(items[i])]

\* RequestQuery.to_bru
RequestQueryToBru(q) ==
    IF q.params = <<>> THEN Ok(EmptyText)
    ELSE IF ~ItemsAllLeaves(q.params) THEN Raise("AttributeError")
    ELSE Ok(<< <<"query {">> >> \o ItemLines(q.params) \o << <<"}">> >>)

\* A Python object given to json.dumps: a scalar or a dict (ordered).
JLeaf(v) == [t |-> "leaf", v |-> v, items |-> <<>>]
JDict(items) == [t |-> "dict", v |-> JNull, items |-> items]

\* d[key] = val on an ordered dict
DictSet(d, key, val) ==
    IF \E i \in DOMAIN d : d[i].key = key
    THEN [i \in DOMAIN d |-> IF d[i].key = key THEN [key |-> key, val |-> val] ELSE d[i]]
    ELSE Append(d, [key |-> key, val |-> val])

RECURSIVE DictOf(_, _)
DictOf(pairs, acc) ==
    IF pairs = <<>> THEN acc
    ELSE DictOf(Tail(pairs), DictSet(acc, Head(pairs).key, Head(pairs).val))

\* RequestBody._prop_to_bru raises ValueError on a property that is neither a
\* BodyProperty nor a RequestNestedItem.
RECURSIVE PropsKnown(_)
PropsKnown(props) ==
    \A i \in DOMAIN props :
        \/ props[i].cls = "BodyProperty"
        \/ props[i].cls = "RequestNestedItem" /\ PropsKnown(props[i].items)

\* Mutant: the default rendered as in a flat line, default_value or ''.
PropLeafOrEmpty(prop) ==
    IF Truthy(prop.default_value) THEN prop.default_value ELSE JStr("")

\* What a BodyProperty stands for in the JSON document: its default_value.
PropLeafDefault(prop) == prop.default_value

\* RequestBody._prop_to_bru
RECURSIVE PropToBru(_)
PropToBru(prop) ==
    IF prop.cls = "RequestNestedItem"
    THEN JDict(DictOf([i \in DOMAIN prop.items |->
                          [key |-> prop.items[i].name, val |-> PropToBru(prop.items[i])]],
                      <<>>))
    ELSE JLeaf(PropLeafDefault(prop))

\* json_stub of RequestBody._props_to_bru
JsonStub(props) ==
    JDict(DictOf([i \in DOMAIN props |->
                     [key |-> props[i].name, val |-> PropToBru(props[i])]], <<>>))

\* json.dumps of a scalar
DumpScalar(v) ==
    CASE v.k = "null" -> <<"null">>
      [] v.k = "int" -> <<ToString(v.i)>>
      [] v.k = "str" -> <<"\"", v.s, "\"">>
      [] v.k = "bool" -> <<IF v.b THEN "true" ELSE "false">>

IndentToks(level) == [i \in 1..level |-> INDENT]

WithComma(lines, more) ==
    IF more THEN [i \in DOMAIN lines |-> IF i = Len(lines) THEN Append(lines[i], ",") ELSE lines[i]]
    ELSE lines

\* json.dumps(obj, indent=2).splitlines(); the first line carries no indent of
\* its own, it follows the key of the enclosing dict.
RECURSIVE DumpLines(_, _)
DumpLines(obj, level) ==
    IF obj.t = "leaf" THEN <<DumpScalar(obj.v)>>
    ELSE IF obj.items = <<>> THEN << <<"{}">> >>
    ELSE LET n == Len(obj.items)
             key(i) == IndentToks(level + 1) \o <<"\"", obj.items[i].key, "\"", ": ">>
             member(i) ==
                 With(DumpLines(obj.items[i].val, level + 1),
                      LAMBDA vl : WithComma(<<key(i) \o vl[1]>> \o Tail(vl), i < n))
         IN  << <<"{">> >> \o Flatten([i \in 1..n |-> member(i)])
                \o <<IndentToks(level) \o <<"}">> >>

JsonDumps(obj) == DumpLines(obj, 0)

\* RequestBody._props_to_bru
PropsToBru(b) ==
    IF b.body_type = Some("JSON")
    THEN IF ~PropsKnown(b.props) THEN Raise("ValueError")
         ELSE Ok(IndentLines(JsonDumps(JsonStub(b.props))))
    ELSE IF ~ItemsAllLeaves(b.props) THEN Raise("AttributeError")
    ELSE Ok(ItemLines(b.props))

\* RequestBody.to_bru; json_data is a dict, None or empty when unset
RequestBodyToBru(b) ==
    IF b.props = <<>> /\ b.json_data = <<>> THEN Ok(EmptyText)
    ELSE IF IsNone(b.body_type) THEN Raise("AttributeError")
    ELSE Bind(PropsToBru(b),
              LAMBDA lines : Ok(<< <<"body:", body_block_type(Get(b.body_type)), " {">> >>
                                  \o lines \o << <<"}">> >>))

\* EndpointVars.to_bru
EndpointVarsToBru(v) ==
    IF ~ItemsAllLeaves(v.pre_request) \/ ~ItemsAllLeaves(v.post_request)
    THEN Raise("AttributeError")
    ELSE LET pre == IF v.pre_request = <<>> THEN <<>>
                    ELSE << << <<"vars:pre-request {">> >> \o ItemLines(v.pre_request)
                              \o << <<"}">> >> >>
             post == IF v.post_request = <<>> THEN <<>>
                     ELSE << << <<"vars:post-request {">> >> \o ItemLines(v.post_request)
                               \o << <<"}">> >> >>
         IN  Ok(JoinNL(pre \o post))

\* EndpointMeta.to_bru
EndpointMetaToBru(m) ==
    IF IsNone(m.endpoint_type) THEN Raise("AttributeError")
    ELSE Ok(<< <<"meta {">>,
               <<INDENT, "name: ", IF IsNone(m.endpoint_name) THEN "None" ELSE Get(m.endpoint_name)>>,
               <<INDENT, "type: ", Get(m.endpoint_type)>>,
               <<INDENT, "seq: ", IF IsNone(m.sequence) THEN "None" ELSE ToString(Get(m.sequence))>>,
               <<"}">> >>)

\* EndpointDocs.to_bru
EndpointDocsToBru(d) ==
    IF IsNone(d.description) \/ d.description = Some("") THEN Ok(EmptyText)
    ELSE Ok(<< <<"docs {">>, <<INDENT, Get(d.description)>>, <<"}">> >>)

\* Mutant: query and body swapped in the emission order.
BlocksOrderBodyFirst(e) ==
    (IF IsNone(e.meta) THEN <<>> ELSE <<EndpointMetaToBru(Get(e.meta))>>)
    \o (IF IsNone(e.config) THEN <<>> ELSE <<EndpointConfigToBru(Get(e.config))>>)
    \o (IF IsNone(e.headers) THEN <<>> ELSE <<RequestHeadersToBru(Get(e.headers))>>)
    \o (IF IsNone(e.body) THEN <<>> ELSE <<RequestBodyToBru(Get(e.body))>>)
    \o (IF IsNone(e.query) THEN <<>> ELSE <<RequestQueryToBru(Get(e.query))>>)
    \o (IF IsNone(e.vars) THEN <<>> ELSE <<EndpointVarsToBru(Get(e.vars))>>)
    \o (IF IsNone(e.docs) THEN <<>> ELSE <<EndpointDocsToBru(Get(e.docs))>>)

\* BrunoEndpoint._blocks_order: the parts that are set, in emission order
BlocksOrder(e) ==
    (IF IsNone(e.meta) THEN <<>> ELSE <<EndpointMetaToBru(Get(e.meta))>>)
    \o (IF IsNone(e.config) THEN <<>> ELSE <<EndpointConfigToBru(Get(e.config))>>)
    \o (IF IsNone(e.headers) THEN <<>> ELSE <<RequestHeadersToBru(Get(e.headers))>>)
    \o (IF IsNone(e.query) THEN <<>> ELSE <<RequestQueryToBru(Get(e.query))>>)
    \o (IF IsNone(e.body) THEN <<>> ELSE <<RequestBodyToBru(Get(e.body))>>)
    \o (IF IsNone(e.vars) THEN <<>> ELSE <<EndpointVarsToBru(Get(e.vars))>>)
    \o (IF IsNone(e.docs) THEN <<>> ELSE <<EndpointDocsToBru(Get(e.docs))>>)

\* '\n\n'.join([part.to_bru() for part in blocks if part and part.to_bru()]) + '\n';
\* rs holds what to_bru() of each part gave
JoinBlocks(rs) ==
    LET bad == {i \in DOMAIN rs : ~IsOk(rs[i])}
        IsBlock(r) == ~IsEmptyStr(r.val)
        Texts(kept) == [i \in DOMAIN kept |-> kept[i].val]
    IN  IF bad # {} THEN Raise(rs[CHOOSE i \in bad : \A j \in bad : i <= j].err)
        ELSE Ok(AppendNL(JoinBlank(Texts(SelectSeq(rs, IsBlock)))))

\* BrunoEndpoint.to_bru
BrunoEndpointToBru(e) == JoinBlocks(BlocksOrder(e))

(***************************************************************************)
(* app/openapi/parts.py: the API model.                                    *)
(***************************************************************************)
Parameter(name, type_, placement, required, default) ==
    [kind |-> "Parameter", name |-> name, type_ |-> type_, placement |-> placement,
     required |-> required, default |-> default, parameters |-> <<>>]

NestedObject(name, parameters) ==
    [kind |-> "NestedObject", name |-> name, type_ |-> "", placement |-> None,
     required |-> FALSE, default |-> JNull, parameters |-> parameters]

Endpoint(path, method, description) ==
    [path |-> path, method |-> method, query |-> None, body |-> None,
     description |-> description]

(***************************************************************************)
(* app/openapi/parser.py.  The raw schema is a record: paths is the        *)
(* ordered mapping of the document, an optional key is None when the       *)
(* document does not have it.                                              *)
(***************************************************************************)
\* ParamPlacement(value): the placement enum, with the members path, query
\* and header.
ParamPlacementOf(value) ==
    CASE value = "path" -> Ok("PATH")
      [] value = "query" -> Ok("QUERY")
      [] value = "header" -> Ok("HEADER")
      [] OTHER -> Raise("ValueError")

\* http.HTTPMethod(name.upper())
HTTPMethodOf(method_name) ==
    CASE method_name \in {"get", "GET"} -> Ok("GET")
      [] method_name \in {"post", "POST"} -> Ok("POST")
      [] method_name \in {"put", "PUT"} -> Ok("PUT")
      [] method_name \in {"delete", "DELETE"} -> Ok("DELETE")
      [] method_name \in {"options", "OPTIONS"} -> Ok("OPTIONS")
      [] method_name \in {"patch", "PATCH"} -> Ok("PATCH")
      [] method_name \in {"head", "HEAD"} -> Ok("HEAD")
      [] OTHER -> Raise("ValueError")

\* Mutant: a method without a parser is skipped instead of raising.
MethodParserOrSkip(method) ==
    IF method \in {"GET", "POST", "PUT", "DELETE"} THEN Ok(method) ELSE Ok("SKIP")

\* OpenAPIParser._method_parser: the dict lookup raises KeyError
MethodParser(method) ==
    IF method \in {"GET", "POST", "PUT", "DELETE"} THEN Ok(method) ELSE Raise("KeyError")

\* OpenAPIParser.dup_fig_par
DupFigPar(toks) ==
    Flatten([i \in DOMAIN toks |->
                IF toks[i] \in {"{", "}"} THEN <<toks[i], toks[i]>> ELSE <<toks[i]>>])

\* rel_path.removeprefix('#/')
RemovePrefix(ref) ==
    IF Len(ref) >= 2 /\ ref[1] = "#" /\ ref[2] = "/" THEN SubSeq(ref, 3, Len(ref)) ELSE ref

\* pathlib.Path(...).parts
PathParts(segs) == [i \in DOMAIN segs |-> Cat(segs[i])]

\* The loop of _schema_from_ref: schema.get(part) on None raises
RECURSIVE SchemaWalk(_, _)
SchemaWalk(cur, parts) ==
    IF parts = <<>> THEN Ok(cur)
    ELSE IF IsNone(cur) THEN Raise("AttributeError")
    ELSE SchemaWalk(IF Head(parts) \in DOMAIN Get(cur) THEN Some(Get(cur)[Head(parts)]) ELSE None,
                    Tail(parts))

\* OpenAPIParser._schema_from_ref: val is the schema found, None when the last
\* key is missing
SchemaFromRef(raw, ref) == SchemaWalk(Some(raw), PathParts(PathOf(RemovePrefix(ref))))

\* data.get(key), with None for a missing key
OrNull(o) == IF IsSome(o) THEN Get(o) ELSE JNull

\* OpenAPIParser._parse_enum
ParseEnum(name, data) ==
    Bind(IF IsSome(data.in_) /\ Get(data.in_) # ""
         THEN ParamPlacementOf(Get(data.in_)) ELSE Ok(""),
         LAMBDA placement :
            Ok(Parameter(name, "enum",
                         IF placement = "" THEN None ELSE Some(placement),
                         IF IsSome(data.required) THEN Get(data.required) ELSE FALSE,
                         OrNull(data.default))))

\* OpenAPIParser._parse_param_common
ParseParamCommon(data) ==
    IF IsNone(data.schema.type) \/ IsNone(data.required) THEN Raise("KeyError")
    ELSE Ok(Parameter(data.name, Get(data.schema.type), None, Get(data.required), JNull))

\* OpenAPIParser._parse_path_param
ParsePathParam(data) ==
    Bind(ParseParamCommon(data), LAMBDA param : Ok([param EXCEPT !.placement = Some("PATH")]))

\* OpenAPIParser._parse_header_param
ParseHeaderParam(data) ==
    Bind(ParseParamCommon(data), LAMBDA param : Ok([param EXCEPT !.placement = Some("HEADER")]))

\* The last three statements of _parse_query_param, schema being the one
\* whose default is read
QueryParamOf(data, schema_default) ==
    Bind(ParseParamCommon(data),
         LAMBDA param : Ok([param EXCEPT !.placement = Some("QUERY"),
                                         !.default = OrNull(schema_default)]))

\* 'enum' in schema: TypeError when the schema looked up is None
EnumIn(schema, IfEnum(_), IfNot(_)) ==
    IF IsNone(schema) THEN Raise("TypeError")
    ELSE IF Get(schema).hasEnum THEN IfEnum(Get(schema))
    ELSE IfNot(Get(schema))

\* OpenAPIParser._parse_query_param
ParseQueryParam(raw, data) ==
    IF IsSome(data.schema.ref)
    THEN Bind(SchemaFromRef(raw, Get(data.schema.ref)),
              LAMBDA schema : EnumIn(schema,
                                     LAMBDA s : ParseEnum(data.name, data),
                                     LAMBDA s : QueryParamOf(data, s.default)))
    ELSE QueryParamOf(data, data.schema.default)

\* The placement branch of _parse_parameter
ParseByPlacement(raw, data, placement) ==
    CASE placement = "PATH" -> ParsePathParam(data)
      [] placement = "QUERY" -> ParseQueryParam(raw, data)
      [] placement = "HEADER" -> ParseHeaderParam(data)

\* OpenAPIParser._parse_parameter: the branch that only prints leaves
\* parameter unbound, and the return raises UnboundLocalError
ParseParameter(raw, data) ==
    IF IsSome(data.schema.allOf)
    THEN Bind(SchemaFromRef(raw, Get(data.schema.allOf)),
              LAMBDA schema : EnumIn(schema,
                                     LAMBDA s : ParseEnum(data.name, data),
                                     LAMBDA s : Raise("UnboundLocalError")))
    ELSE IF IsNone(data.in_) THEN Raise("KeyError")
    ELSE Bind(ParamPlacementOf(Get(data.in_)),
              LAMBDA placement : ParseByPlacement(raw, data, placement))

\* Mutant: a parameter whose parsing raises is left out of the list.
RECURSIVE ParseParametersSkip(_, _, _)
ParseParametersSkip(raw, datas, acc) ==
    IF datas = <<>> THEN Ok(acc)
    ELSE With(ParseParameter(raw, Head(datas)),
              LAMBDA r : ParseParametersSkip(raw, Tail(datas),
                                             IF IsOk(r) THEN Append(acc, r.val) ELSE acc))

\* [self._parse_parameter(d) for d in data.get('parameters', [])]: the first
\* exception ends the comprehension
RECURSIVE ParseParameters(_, _, _)
ParseParameters(raw, datas, acc) ==
    IF datas = <<>> THEN Ok(acc)
    ELSE Bind(ParseParameter(raw, Head(datas)),
              LAMBDA parameter : ParseParameters(raw, Tail(datas), Append(acc, parameter)))

\* The loop of _parse_body_form_url_encoded
RECURSIVE ParseFormProps(_, _, _)
ParseFormProps(schema, props, acc) ==
    IF props = <<>> THEN Ok(acc)
    ELSE IF IsNone(Head(props).data.type) \/ IsNone(schema.required) THEN Raise("KeyError")
    ELSE ParseFormProps(schema, Tail(props),
            Append(acc, Parameter(Head(props).name, Get(Head(props).data.type), None,
                                  Head(props).name \in Range(Get(schema.required)), JNull)))

\* OpenAPIParser._parse_body_form_url_encoded
ParseBodyFormUrlEncoded(schema) ==
    IF IsNone(schema.properties) THEN Raise("KeyError")
    ELSE Bind(ParseFormProps(schema, Get(schema.properties), <<>>),
              LAMBDA payload : Ok([content_type |-> "FORM_URL_ENCODED", payload |-> payload]))

\* The Parameter _parse_body_json makes of a property that has a type
TypedProperty(schema, p) ==
    Parameter(p.name, Get(p.data.type), None,
              IF IsSome(schema.required) THEN p.name \in Range(Get(schema.required)) ELSE FALSE,
              OrNull(p.data.default))

\* property_data.get('allOf'), and property_data.get('$ref') when there is
\* none: both branches of _parse_body_json do the same with the reference
PropertyRef(p) == IF IsSome(p.data.allOf) THEN p.data.allOf ELSE p.data.ref

RECURSIVE ParseJsonProps(_, _, _, _, _)

\* Mutant: at the depth where Python ends the recursion the nested schema is
\* given an empty payload.
NestedBodyCut(raw, s, depth) ==
    IF depth >= MaxDepth THEN Ok(<<>>)
    ELSE IF IsNone(s.properties) THEN Raise("KeyError")
    ELSE ParseJsonProps(raw, s, Get(s.properties), <<>>, depth + 1)

\* nested_body = self._parse_body_json(schema), nested_body.payload; depth
\* counts the nested calls, Python ends a recursion that does not end with
\* RecursionError
NestedBody(raw, s, depth) ==
    IF depth >= MaxDepth THEN Raise("RecursionError")
    ELSE IF IsNone(s.properties) THEN Raise("KeyError")
    ELSE ParseJsonProps(raw, s, Get(s.properties), <<>>, depth + 1)

\* The loop of _parse_body_json.  A property without type, allOf and $ref
\* adds nothing to the payload.
ParseJsonProps(raw, schema, props, acc, depth) ==
    IF props = <<>> THEN Ok(acc)
    ELSE Bind(
        IF IsSome(Head(props).data.type) THEN Ok(<<TypedProperty(schema, Head(props))>>)
        ELSE IF IsNone(PropertyRef(Head(props))) THEN Ok(<<>>)
        ELSE Bind(SchemaFromRef(raw, Get(PropertyRef(Head(props)))),
                  LAMBDA found : EnumIn(found,
                      LAMBDA s : Bind(ParseEnum(Head(props).name, Head(props).data),
                                      LAMBDA e : Ok(<<e>>)),
                      LAMBDA s : Bind(NestedBody(raw, s, depth),
                                      LAMBDA nested :
                                          Ok(<<NestedObject(Head(props).name, nested)>>)))),
        LAMBDA items : ParseJsonProps(raw, schema, Tail(props), acc \o items, depth))

\* OpenAPIParser._parse_body_json
ParseBodyJson(raw, schema) ==
    IF IsNone(schema.properties) THEN Raise("KeyError")
    ELSE Bind(ParseJsonProps(raw, schema, Get(schema.properties), <<>>, 0),
              LAMBDA payload : Ok([content_type |-> "JSON", payload |-> payload]))

\* OpenAPIParser._body_parser and the call of the parser found
BodyParser(raw, body_type, schema) ==
    CASE body_type = "JSON" -> ParseBodyJson(raw, schema)
      [] body_type = "FORM_URL_ENCODED" -> ParseBodyFormUrlEncoded(schema)
      [] body_type = "NONE" -> Raise("UnboundLocalError")

\* schema_data['items']['$ref'] for an array, schema_data['$ref'] otherwise
BodySchemaRef(schema_data) ==
    IF schema_data.type = Some("array") THEN schema_data.itemsRef ELSE schema_data.ref

\* OpenAPIParser._parse_body: the parsers index the schema found, which
\* raises TypeError on None
ParseBody(raw, data) ==
    IF data.content = <<>> THEN Raise("IndexError")
    ELSE IF IsNone(BodySchemaRef(data.content[1].schema)) THEN Raise("KeyError")
    ELSE Bind(SchemaFromRef(raw, Get(BodySchemaRef(data.content[1].schema))),
              LAMBDA schema :
                  IF IsNone(schema) /\ from_content_type(Some(PStr(data.content[1].ctype))) # "NONE"
                  THEN Raise("TypeError")
                  ELSE BodyParser(raw, from_content_type(Some(PStr(data.content[1].ctype))),
                                  IF IsNone(schema) THEN schema ELSE Get(schema)))

\* data.get('summary') or data('description'): data is a dict, calling it
\* raises TypeError
EndpointDescription(data) ==
    IF IsSome(data.summary) /\ Get(data.summary) # "" THEN Ok(data.summary)
    ELSE Raise("TypeError")

\* if raw_body := data.get('requestBody'): endpoint.body = self._parse_body(raw_body);
\* _parse_get does not have the statement
EndpointBody(raw, method, data) ==
    IF method # "GET" /\ IsSome(data.requestBody)
    THEN Bind(ParseBody(raw, Get(data.requestBody)), LAMBDA body : Ok(Some(body)))
    ELSE Ok(None)

\* OpenAPIParser._parse_get, _parse_post, _parse_put, _parse_delete
ParseMethod(raw, method, path, data) ==
    Bind(EndpointDescription(data), LAMBDA description :
    Bind(ParseParameters(raw, IF IsSome(data.parameters) THEN Get(data.parameters) ELSE <<>>,
                         <<>>), LAMBDA parameters :
    Bind(EndpointBody(raw, method, data), LAMBDA body :
         Ok([Endpoint(PathOf(path), method, description) EXCEPT
               !.query = IF parameters = <<>> THEN None
                         ELSE Some([parameters |-> parameters]),
               !.body = body]))))

\* parser = self._method_parser(HTTPMethod(method_name.upper()));
\* parsed_path.endpoints.append(parser(path, method_data))
ParseEntry(raw, path, m) ==
    Bind(HTTPMethodOf(m.name), LAMBDA method :
    Bind(MethodParser(method), LAMBDA parser :
         IF parser = "SKIP" THEN Ok(<<>>)
         ELSE Bind(ParseMethod(raw, parser, path, m.data), LAMBDA endpoint : Ok(<<endpoint>>))))

\* The loop over methods.items() of OpenAPIParser.parse
RECURSIVE ParseMethods(_, _, _, _)
ParseMethods(raw, path, methods, acc) ==
    IF methods = <<>> THEN Ok(acc)
    ELSE Bind(ParseEntry(raw, path, Head(methods)),
              LAMBDA endpoints : ParseMethods(raw, path, Tail(methods), acc \o endpoints))

\* if '{' in path: path = self.dup_fig_par(path)
ParsedPathKey(raw_path) == IF "{" \in Range(raw_path) THEN DupFigPar(raw_path) ELSE raw_path

\* The loop over paths of OpenAPIParser.parse: val is API.paths, an ordered
\* dict from the path string to Path(path, endpoints)
RECURSIVE ParsePaths(_, _, _)
ParsePaths(raw, entries, acc) ==
    IF entries = <<>> THEN Ok(acc)
    ELSE Bind(ParseMethods(raw, ParsedPathKey(Head(entries).key), Head(entries).methods, <<>>),
              LAMBDA endpoints :
                  ParsePaths(raw, Tail(entries),
                             DictSet(acc, ParsedPathKey(Head(entries).key),
                                     [path |-> PathOf(ParsedPathKey(Head(entries).key)),
                                      endpoints |-> endpoints])))

\* OpenAPIParser.parse
Parse(raw) == ParsePaths(raw, raw.paths, <<>>)

(***************************************************************************)
(* app/openapi/coupler.py                                                  *)
(***************************************************************************)
BRU_FILE_SUFFIX == ".bru"

\* Mutant: the counter is read before it is incremented.
CoupleMetaStale(endpoint, sequence_number) ==
    [endpoint_name |-> Some(PathStem(endpoint.path)),
     endpoint_type |-> Some("http"),
     sequence |-> Some(sequence_number - 1)]

\* OpenAPICoupler._couple_meta
CoupleMeta(endpoint, sequence_number) ==
    [endpoint_name |-> Some(PathStem(endpoint.path)),
     endpoint_type |-> Some("http"),
     sequence |-> Some(sequence_number)]

\* OpenAPICoupler._get_body_content_type: getattr(endpoint.body, 'content_type', None),
\* a member of RequestBodyType
GetBodyContentType(endpoint) ==
    IF IsNone(endpoint.body) THEN None ELSE Some(PEnum(Get(endpoint.body).content_type))

\* OpenAPICoupler._couple_config: auth_type is left at its default, None
CoupleConfig(endpoint) ==
    [http_method |-> Some(endpoint.method),
     url |-> endpoint.path,
     body_type |-> IF IsNone(endpoint.body) THEN None ELSE Some(Get(endpoint.body).content_type),
     auth_type |-> None]

\* OpenAPICoupler._couple_headers
CoupleHeaders(endpoint) == [content_type |-> GetBodyContentType(endpoint)]

\* OpenAPICoupler._get_request_body_type: always a member of RequestBodyType
GetRequestBodyType(endpoint) == Some(from_content_type(GetBodyContentType(endpoint)))

\* OpenAPICoupler._get_param_class; the class of a header parameter is ''
GetParamClass(placement) ==
    IF IsNone(placement) THEN "BodyProperty"
    ELSE CASE Get(placement) = "PATH" -> "EndpointVar"
           [] Get(placement) = "QUERY" -> "QueryParameter"
           [] Get(placement) = "HEADER" -> ""

\* OpenAPICoupler._couple_payload_item, for a Parameter: calling '' raises
\* TypeError
CoupleLeaf(item) ==
    IF GetParamClass(item.placement) = "" THEN Raise("TypeError")
    ELSE Ok(PayloadItem(GetParamClass(item.placement), item.name, item.default,
                        item.required, item.required, item.placement, item.type_))

\* OpenAPICoupler._couple_payload_item
RECURSIVE CouplePayloadItem(_)
RECURSIVE CouplePayloadItems(_, _)
CouplePayloadItem(item) ==
    IF item.kind = "NestedObject"
    THEN Bind(CouplePayloadItems(item.parameters, <<>>),
              LAMBDA items : Ok(RequestNestedItem(item.name, items)))
    ELSE CoupleLeaf(item)

\* [self._couple_payload_item(p) for p in items]
CouplePayloadItems(items, acc) ==
    IF items = <<>> THEN Ok(acc)
    ELSE Bind(CouplePayloadItem(Head(items)),
              LAMBDA coupled : CouplePayloadItems(Tail(items), Append(acc, coupled)))

\* getattr(endpoint.query, 'parameters', [])
QueryParameters(endpoint) ==
    IF IsNone(endpoint.query) THEN <<>> ELSE Get(endpoint.query).parameters

\* if parameter.placement is ParamPlacement.QUERY
PlacedQuery(p) == p.placement = Some("QUERY")

\* if parameter.placement is ParamPlacement.PATH
PlacedPath(p) == p.placement = Some("PATH")

\* OpenAPICoupler._couple_query
CoupleQuery(endpoint) ==
    Bind(CouplePayloadItems(SelectSeq(QueryParameters(endpoint), PlacedQuery), <<>>),
         LAMBDA params : Ok([params |-> params]))

\* OpenAPICoupler._couple_vars
CoupleVars(endpoint) ==
    Bind(CouplePayloadItems(SelectSeq(QueryParameters(endpoint), PlacedPath), <<>>),
         LAMBDA pre_request : Ok([pre_request |-> pre_request, post_request |-> <<>>]))

\* OpenAPICoupler._couple_docs
CoupleDocs(endpoint) == [description |-> endpoint.description]

\* OpenAPICoupler._couple_body_json
CoupleBodyJson(endpoint) ==
    CouplePayloadItems(IF IsNone(endpoint.body) THEN <<>> ELSE Get(endpoint.body).payload, <<>>)

\* bru_parts.RequestBody(body_type=body_type, props=props)
RequestBody(body_type, props) == [body_type |-> body_type, props |-> props, json_data |-> <<>>]

\* OpenAPICoupler._couple_body: case RequestBodyType.JSON, case None, case
\* body_type
CoupleBody(endpoint) ==
    IF GetRequestBodyType(endpoint) = Some("JSON")
    THEN Bind(CoupleBodyJson(endpoint), LAMBDA props : Ok(RequestBody(Some("JSON"), props)))
    ELSE IF GetRequestBodyType(endpoint) = None
    THEN Ok(RequestBody(None, <<>>))
    ELSE Raise("ValueError")

\* OpenAPICoupler._couple_endpoint: the arguments are evaluated in order
CoupleEndpointModel(endpoint, sequence_number) ==
    Bind(CoupleBody(endpoint), LAMBDA body :
    Bind(CoupleQuery(endpoint), LAMBDA query :
    Bind(CoupleVars(endpoint), LAMBDA vars_ :
         Ok([meta |-> Some(CoupleMeta(endpoint, sequence_number)),
             config |-> Some(CoupleConfig(endpoint)),
             headers |-> Some(CoupleHeaders(endpoint)),
             body |-> Some(body),
             query |-> Some(query),
             vars |-> Some(vars_),
             docs |-> Some(CoupleDocs(endpoint))]))))

\* path.relative_to('/'): the names of the components below the root folder
RelativeNames(path) == [i \in DOMAIN path |-> Cat(path[i])]

\* OpenAPICoupler._get_method_filename
GetMethodFilename(endpoint) ==
    Append(RelativeNames(endpoint.path), MethodLower(endpoint.method) \o BRU_FILE_SUFFIX)

\* OpenAPICoupler._make_path_dirs: mkdir(parents=True, exist_ok=True)
MakePathDirs(dirs, path) ==
    dirs \cup {SubSeq(RelativeNames(path), 1, n) : n \in 1..Len(path)}

(***************************************************************************)
(* The input schemas of the model.                                         *)
(***************************************************************************)
Ref(name) == <<"#", "/", "components", "/", "schemas", "/", name>>

PropData(type, default, allOf, ref) ==
    [type |-> type, default |-> default, allOf |-> allOf, ref |-> ref,
     in_ |-> None, required |-> None]

Prop(name, data) == [name |-> name, data |-> data]

Component(hasEnum, properties, required) ==
    [hasEnum |-> hasEnum, properties |-> properties, required |-> required,
     default |-> None]

Components ==
    [Item |-> Component(FALSE,
                 Some(<<Prop("a", PropData(Some("integer"), Some(JInt(1)), None, None)),
                        Prop("b", PropData(None, None, None, Some(Ref("Sub"))))>>),
                 Some(<<"a">>)),
     Sub |-> Component(FALSE,
                 Some(<<Prop("c", PropData(Some("string"), Some(JStr("x")), None, None))>>),
                 None),
     Form |-> Component(FALSE,
                 Some(<<Prop("name", PropData(Some("string"), None, None, None)),
                        Prop("age", PropData(Some("integer"), None, None, None))>>),
                 Some(<<"name", "age">>)),
     Color |-> Component(TRUE, None, None),
     Loose |-> Component(FALSE,
                 Some(<<Prop("a", PropData(Some("integer"), Some(JInt(1)), None, None)),
                        Prop("z", PropData(None, None, None, None))>>),
                 None),
     Tagged |-> Component(FALSE,
                 Some(<<Prop("color", [PropData(None, None, None, Some(Ref("Color")))
                                         EXCEPT !.in_ = Some("query")])>>),
                 None),
     Paint |-> Component(FALSE,
                 Some(<<Prop("size", PropData(Some("integer"), None, None, None)),
                        Prop("color", PropData(None, None, Some(Ref("Color")), None))>>),
                 Some(<<"color">>)),
     Node |-> Component(FALSE,
                 Some(<<Prop("v", PropData(Some("integer"), None, None, None)),
                        Prop("next", PropData(None, None, Some(Ref("Node")), None))>>),
                 None)]

ParamSchema(type, default, ref, allOf) ==
    [type |-> type, default |-> default, ref |-> ref, allOf |-> allOf]

RawParam(name, in_, required, schema) ==
    [name |-> name, in_ |-> in_, required |-> required, schema |-> schema,
     default |-> None]

RawBody(ctype, ref) ==
    [content |-> <<[ctype |-> ctype,
                    schema |-> [type |-> None, ref |-> Some(ref), itemsRef |-> None]]>>]

MethodData(summary, parameters, requestBody) ==
    [summary |-> summary, description |-> None, parameters |-> parameters,
     requestBody |-> requestBody]

ParamId(in_) == RawParam("id", Some(in_), Some(TRUE), ParamSchema(Some("string"), None, None, None))
ParamLimit ==
    RawParam("limit", Some("query"), Some(FALSE),
             ParamSchema(Some("integer"), Some(JInt(10)), None, None))

DataPlain == MethodData(Some("Plain"), None, None)
DataQuery == MethodData(Some("List"), Some(<<ParamId("query"), ParamLimit>>), None)
DataPathParam == MethodData(Some("Read"), Some(<<ParamId("path")>>), None)
DataJson == MethodData(Some("Create"), None, Some(RawBody("application/json", Ref("Item"))))
DataForm == MethodData(Some("Submit"), None, Some(RawBody(FormContentType, Ref("Form"))))
DataPathJson ==
    MethodData(Some("Update"), Some(<<ParamId("path")>>),
               Some(RawBody("application/json", Ref("Item"))))

DataHeaderJson ==
    MethodData(Some("Send"), Some(<<ParamId("header")>>),
               Some(RawBody("application/json", Ref("Item"))))
DataLoose == MethodData(Some("Loose"), None, Some(RawBody("application/json", Ref("Loose"))))
DataTagged == MethodData(Some("Tag"), None, Some(RawBody("application/json", Ref("Tagged"))))
DataCyclic == MethodData(Some("Link"), None, Some(RawBody("application/json", Ref("Node"))))
DataPaint == MethodData(Some("Paint"), None, Some(RawBody("application/json", Ref("Paint"))))
DataDescribed == [DataJson EXCEPT !.summary = None, !.description = Some("Details")]
DataEmptySummary == [DataJson EXCEPT !.summary = Some(""), !.description = Some("Details")]
ParamCookie ==
    RawParam("session", Some("cookie"), Some(TRUE), ParamSchema(Some("string"), None, None, None))
ParamAllOfObject ==
    RawParam("filter", Some("query"), Some(FALSE), ParamSchema(None, None, None, Some(Ref("Item"))))
DataCookie ==
    MethodData(Some("Visit"), Some(<<ParamId("query"), ParamCookie>>),
               Some(RawBody("application/json", Ref("Item"))))
DataAllOfObject ==
    MethodData(Some("Filter"), Some(<<ParamId("query"), ParamAllOfObject>>),
               Some(RawBody("application/json", Ref("Item"))))

MethodEntry(name, data) == [name |-> name, data |-> data]

MethodCatalogue ==
    <<MethodEntry("get", DataQuery), MethodEntry("get", DataPathParam),
      MethodEntry("POST", DataJson), MethodEntry("post", DataJson),
      MethodEntry("post", DataForm), MethodEntry("put", DataPathJson),
      MethodEntry("delete", DataPlain), MethodEntry("options", DataPlain)>>

\* The catalogue with the entries of the schemas of a single path: a header
\* parameter, a property without type and reference, a property with a
\* placement, a schema that refers to itself, a parameter with a placement
\* that is none of path, query and header, a parameter whose allOf refers to
\* a schema without enum, a required property that refers to an enum, an
\* entry with a description and without a summary or with an empty one.
FeatureCatalogue ==
    MethodCatalogue \o
    <<MethodEntry("put", DataHeaderJson), MethodEntry("post", DataLoose),
      MethodEntry("delete", DataTagged), MethodEntry("put", DataCyclic),
      MethodEntry("post", DataCookie), MethodEntry("put", DataAllOfObject),
      MethodEntry("post", DataPaint), MethodEntry("post", DataDescribed),
      MethodEntry("put", DataEmptySummary)>>

PathItems == <<"/", "items">>
PathItemsSlash == <<"/", "items", "/">>
PathItemId == <<"/", "items", "/", "{", "id", "}">>
PathReport == <<"/", "files", "/", "report", ".", "json">>
PathCatalogue == <<PathItems, PathItemsSlash, PathItemId>>
FeaturePaths == {PathItems, PathReport}

\* The members of a catalogue at the indices of I, in catalogue order.
RECURSIVE Pick(_, _)
Pick(cat, I) ==
    IF I = {} THEN <<>>
    ELSE With(CHOOSE x \in I : \A y \in I : x <= y,
              LAMBDA i : <<cat[i]>> \o Pick(cat, I \ {i}))

\* The selections of up to MaxMethods entries of a catalogue, the method keys
\* of a selection differing as the keys of a mapping do.
ChoicesOf(cat) ==
    {Pick(cat, I) : I \in
        {J \in SUBSET DOMAIN cat :
            /\ Cardinality(J) <= MaxMethods
            /\ \A x, y \in J : x # y => cat[x].name # cat[y].name}}

MethodChoices == ChoicesOf(MethodCatalogue)

RawSchema(paths) == [paths |-> paths, components |-> [schemas |-> Components]]

\* Up to MaxPaths paths of the catalogue with up to MaxEndpoints entries.
CoreSchemas ==
    UNION {{RawSchema([i \in DOMAIN keys |-> [key |-> keys[i], methods |-> f[i]]]) :
              f \in {g \in [DOMAIN keys -> MethodChoices] :
                        /\ Len(g[1]) >= 1
                        /\ Len(Flatten(g)) <= MaxEndpoints}} :
           keys \in {Pick(PathCatalogue, K) : K \in
                       {J \in SUBSET DOMAIN PathCatalogue : J # {} /\ Cardinality(J) <= MaxPaths}}}

\* One path with entries of the feature catalogue.
FeatureSchemas ==
    {RawSchema(<<[key |-> key, methods |-> methods]>>) :
        key \in FeaturePaths, methods \in ChoicesOf(FeatureCatalogue) \ {<<>>}}

Schemas == CoreSchemas \cup FeatureSchemas

\* The (path, method) entries of a schema, in document order.
Entries(raw) ==
    Flatten([i \in DOMAIN raw.paths |->
               [j \in DOMAIN raw.paths[i].methods |->
                  [key |-> raw.paths[i].key, name |-> raw.paths[i].methods[j].name,
                   data |-> raw.paths[i].methods[j].data]]])

(***************************************************************************)
(* The run of the pipeline: main() parses the schema, builds the coupler   *)
(* and awaits couple().  The coupler of main.py and the one of             *)
(* app/openapi/coupler.py differ in the wording of _couple_body only, not  *)
(* in what it does.  The statements of main() after couple(), which build  *)
(* and write the endpoints a second time, are outside the model.           *)
(***************************************************************************)
VARIABLES
    raw,              \* the raw schema of the run
    pc,               \* "parse", "couple", "write", "done" or "failed"
    api,              \* OpenAPIParser.parsed_api.paths as parse() returned it
    err,              \* the exception that ended the run, "" when there is none
    pi_,              \* couple(): index of the path in api
    ei,               \* couple(): index of the endpoint in the path, 0 before mkdir
    sequence_number,  \* OpenAPICoupler._sequence_number
    pending,          \* the (file, endpoint) handed to write_to_file
    dirs,             \* the directories below the root folder
    files,            \* the files below the root folder: name -> text
    written,          \* the writes of this run, in order
    run,              \* the number of the run
    firstRun,         \* the files as the first run left them
    tm,               \* a target collection model or body payload to render
    out               \* the result of rendering tm

vars == <<raw, pc, api, err, pi_, ei, sequence_number, pending, dirs, files, written,
          run, firstRun, tm, out>>

NoFiles == <<>>
Idle == [kind |-> "none"]

Init ==
    /\ raw \in Schemas
    /\ pc = "parse"
    /\ api = <<>>
    /\ err = ""
    /\ pi_ = 1
    /\ ei = 0
    /\ sequence_number = 0
    /\ pending = None
    /\ dirs = {}
    /\ files = NoFiles
    /\ written = <<>>
    /\ run = 1
    /\ firstRun = NoFiles
    /\ tm = Idle
    /\ out = Ok(EmptyText)

\* The root folder of the output, as a path relative to itself
RootFolder == <<>>

\* Mutant of MakeDirs: the root folder is made before parser.parse() is called
MakeDirsFirst(r, ds) == ds \cup {RootFolder}

\* main(): api_root_folder = make_dirs(APIS_DIR, 'box-dev'), the statement
\* after api_data = parser.parse(): it is reached when parse() has returned
\* and not when parse() raised; mkdir(exist_ok=True) keeps an existing folder
MakeDirs(r, ds) == IF IsOk(r) THEN ds \cup {RootFolder} ELSE ds

\* What ParseSchema leaves, r being what parser.parse() gave
ParseReturns(r) ==
    /\ pc' = IF IsOk(r) THEN "couple" ELSE "failed"
    /\ api' = IF IsOk(r) THEN r.val ELSE <<>>
    /\ err' = r.err
    /\ dirs' = MakeDirs(r, dirs)

\* main(): parser.parse(), then make_dirs(APIS_DIR, 'box-dev'), then
\* OpenAPICoupler(api_data, root) with _sequence_number = 0
ParseSchema ==
    /\ pc = "parse"
    /\ ParseReturns(Parse(raw))
    /\ pi_' = 1
    /\ ei' = 0
    /\ sequence_number' = 0
    /\ UNCHANGED <<raw, pending, files, written, run, firstRun, tm, out>>

\* couple(): the position after endpoint e of path p
NextPosition(p, e) ==
    IF e < Len(api[p].val.endpoints) THEN <<p, e + 1>> ELSE <<p + 1, 0>>

\* couple(): self._make_path_dirs(openapi_path.path) on entering a path
CoupleMakePathDirs ==
    /\ pc = "couple"
    /\ pi_ <= Len(api)
    /\ ei = 0
    /\ dirs' = MakePathDirs(dirs, api[pi_].val.path)
    /\ pi_' = NextPosition(pi_, 0)[1]
    /\ ei' = NextPosition(pi_, 0)[2]
    /\ UNCHANGED <<raw, pc, api, err, sequence_number, pending, files, written, run,
                   firstRun, tm, out>>

\* What CoupleEndpoint leaves, bru_endpoint being what _couple_endpoint gave
Coupled(method_filename, bru_endpoint) ==
    IF IsOk(bru_endpoint)
    THEN /\ pending' = Some([file |-> method_filename, endpoint |-> bru_endpoint.val])
         /\ pc' = "write"
         /\ err' = err
    ELSE /\ pending' = None
         /\ pc' = "failed"
         /\ err' = bru_endpoint.err

\* couple(): the counter is incremented, the file name and the endpoint are
\* built; an exception of _couple_endpoint ends couple()
CoupleEndpoint ==
    /\ pc = "couple"
    /\ pi_ <= Len(api)
    /\ ei >= 1
    /\ sequence_number' = sequence_number + 1
    /\ Coupled(GetMethodFilename(api[pi_].val.endpoints[ei]),
               CoupleEndpointModel(api[pi_].val.endpoints[ei], sequence_number + 1))
    /\ UNCHANGED <<raw, api, pi_, ei, dirs, files, written, run, firstRun, tm, out>>

\* open(file_path, 'w') creates or empties the file
Opened(fs, file) == [f \in DOMAIN fs \cup {file} |-> IF f = file THEN EmptyText ELSE fs[f]]

\* Mutant: open(file_path, 'a'), the text is added to what the file holds.
StoreAppend(fs, file, text) ==
    [f \in DOMAIN fs \cup {file} |->
        IF f = file THEN (IF file \in DOMAIN fs THEN fs[file] \o text ELSE text) ELSE fs[f]]

\* f.write(text) on the file opened with 'w'
Store(fs, file, text) == [f \in DOMAIN fs \cup {file} |-> IF f = file THEN text ELSE fs[f]]

\* What WriteToFile leaves, text being what endpoint.to_bru() gave
Wrote(file, endpoint, text) ==
    IF IsOk(text)
    THEN /\ files' = Store(files, file, text.val)
         /\ written' = Append(written, [file |-> file, endpoint |-> endpoint,
                                        text |-> text.val])
         /\ pc' = "couple"
         /\ err' = err
         /\ pi_' = NextPosition(pi_, ei)[1]
         /\ ei' = NextPosition(pi_, ei)[2]
    ELSE /\ files' = Opened(files, file)
         /\ written' = written
         /\ pc' = "failed"
         /\ err' = text.err
         /\ UNCHANGED <<pi_, ei>>

\* OpenAPICoupler.write_to_file: the file is opened, then the endpoint is
\* rendered and written
WriteToFile ==
    /\ pc = "write"
    /\ Wrote(Get(pending).file, Get(pending).endpoint,
             BrunoEndpointToBru(Get(pending).endpoint))
    /\ pending' = None
    /\ UNCHANGED <<raw, api, sequence_number, dirs, run, firstRun, tm, out>>

\* couple() returns
CoupleReturn ==
    /\ pc = "couple"
    /\ pi_ > Len(api)
    /\ pc' = "done"
    /\ UNCHANGED <<raw, api, err, pi_, ei, sequence_number, pending, dirs, files, written,
                   run, firstRun, tm, out>>

\* The pipeline is run again on the same schema and the same root folder.
RunAgain ==
    /\ pc \in {"done", "failed"}
    /\ run < MaxRuns
    /\ run' = run + 1
    /\ firstRun' = IF run = 1 THEN files ELSE firstRun
    /\ pc' = "parse"
    /\ api' = <<>>
    /\ err' = ""
    /\ pi_' = 1
    /\ ei' = 0
    /\ sequence_number' = 0
    /\ pending' = None
    /\ written' = <<>>
    /\ UNCHANGED <<raw, dirs, files, tm, out>>

Next ==
    \/ ParseSchema
    \/ CoupleMakePathDirs
    \/ CoupleEndpoint
    \/ WriteToFile
    \/ CoupleReturn
    \/ RunAgain

Spec == Init /\ [][Next]_vars

(***************************************************************************)
(* The serializer on its own: a body payload of the API model is coupled   *)
(* and rendered, a Bruno endpoint is rendered.                             *)
(***************************************************************************)
Defaults == {JNull, JInt(1), JStr("x")}

PropNames == <<"a", "b", "c", "d", "e", "f", "g", "h", "i", "j", "k", "l">>

\* The name of the property at position i of an object nested d deep: the
\* names of one object differ, as the keys of a properties mapping do.
NameAt(d, i) == PropNames[d * MaxProps + i]

\* The Parameter of a body property with the default
LeafAt(d, i, default) ==
    Parameter(NameAt(d, i), IF default.k = "int" THEN "integer" ELSE "string", None, FALSE,
              default)

\* The payloads of n items of an object nested d deep: each item a Parameter
\* without placement but for at most one, which is a NestedObject with a
\* payload of nested.
PayloadsOf(d, n, nested) ==
    {[i \in 1..n |-> LeafAt(d, i, f[i])] : f \in [1..n -> Defaults]}
    \cup {[i \in 1..n |-> IF i = k THEN NestedObject(NameAt(d, i), ps) ELSE LeafAt(d, i, f[i])] :
             f \in [1..n -> Defaults], k \in 1..n, ps \in nested}

\* The payloads of an object nested d deep: up to MaxProps items, nested
\* objects down to MaxNesting.
RECURSIVE Payloads(_)
Payloads(d) ==
    With(IF d >= MaxNesting THEN {} ELSE Payloads(d + 1),
         LAMBDA nested : UNION {PayloadsOf(d, n, nested) : n \in 0..MaxProps})

\* The endpoint of a POST with a JSON body of the payload
EndpointOfPayload(payload) ==
    [Endpoint(PathOf(PathItems), "POST", Some("Create")) EXCEPT
       !.body = Some([content_type |-> "JSON", payload |-> payload])]

ParamQ == PayloadItem("QueryParameter", "q", JInt(1), TRUE, TRUE, Some("QUERY"), "integer")
VarPre == PayloadItem("EndpointVar", "id", JNull, TRUE, TRUE, Some("PATH"), "string")
VarPost == PayloadItem("EndpointVar", "token", JNull, FALSE, FALSE, Some("PATH"), "string")
PropA == PayloadItem("BodyProperty", "a", JInt(1), TRUE, TRUE, None, "integer")

MetaChoices == {None, Some(CoupleMeta(Endpoint(PathOf(PathItems), "POST", Some("Create")), 1))}
ConfigChoices == {None, Some(CoupleConfig(EndpointOfPayload(<<>>)))}
HeadersChoices ==
    {None, Some([content_type |-> None]), Some([content_type |-> Some(PStr("application/json"))])}
QueryChoices == {None, Some([params |-> <<>>]), Some([params |-> <<ParamQ>>])}
BodyChoices ==
    {None,
     Some(RequestBody(Some("JSON"), <<>>)),
     Some(RequestBody(Some("JSON"), <<PropA>>)),
     Some(RequestBody(Some("FORM_URL_ENCODED"), <<PropA>>)),
     Some([RequestBody(Some("JSON"), <<>>) EXCEPT
             !.json_data = <<[key |-> "a", val |-> JLeaf(JInt(1))]>>])}
VarsChoices ==
    {None} \cup {Some([pre_request |-> pre, post_request |-> post]) :
                    pre \in {<<>>, <<VarPre>>}, post \in {<<>>, <<VarPost>>}}
DocsChoices == {None, Some([description |-> None]), Some([description |-> Some("Create")])}

BrunoEndpoints ==
    [meta : MetaChoices, config : ConfigChoices, headers : HeadersChoices,
     query : QueryChoices, body : BodyChoices, vars : VarsChoices, docs : DocsChoices]

\* The defaults of a leaf item: absent, falsy and truthy values.
LeafDefaults == {JNull, JInt(0), JInt(1), JBool(FALSE), JBool(TRUE), JStr("x")}

\* The Parameters of the API model that the coupler makes a leaf item of: a
\* query parameter, a path parameter, a body property.
LeafParameters ==
    {Parameter("p", "string", placement, required, default) :
        placement \in {Some("QUERY"), Some("PATH"), None},
        required \in BOOLEAN, default \in LeafDefaults}

RenderInputs ==
    {[kind |-> "payload", payload |-> ps, endpoint |-> None] : ps \in Payloads(0)}
    \cup {[kind |-> "endpoint", payload |-> <<>>, endpoint |-> Some(e)] : e \in BrunoEndpoints}
    \cup {[kind |-> "item", payload |-> <<p>>, endpoint |-> None] : p \in LeafParameters}

InitRender ==
    /\ tm \in RenderInputs
    /\ out = Ok(EmptyText)
    /\ pc = "render"
    /\ raw = RawSchema(<<>>)
    /\ api = <<>>
    /\ err = ""
    /\ pi_ = 1
    /\ ei = 0
    /\ sequence_number = 0
    /\ pending = None
    /\ dirs = {}
    /\ files = NoFiles
    /\ written = <<>>
    /\ run = 1
    /\ firstRun = NoFiles

\* _couple_body(endpoint).to_bru() for an endpoint with a JSON body
RenderBody ==
    /\ pc = "render"
    /\ tm.kind = "payload"
    /\ out' = Bind(CoupleBody(EndpointOfPayload(tm.payload)), LAMBDA b : RequestBodyToBru(b))
    /\ pc' = "rendered"
    /\ UNCHANGED <<raw, api, err, pi_, ei, sequence_number, pending, dirs, files, written,
                   run, firstRun, tm>>

\* BrunoEndpoint.to_bru()
RenderEndpoint ==
    /\ pc = "render"
    /\ tm.kind = "endpoint"
    /\ out' = BrunoEndpointToBru(Get(tm.endpoint))
    /\ pc' = "rendered"
    /\ UNCHANGED <<raw, api, err, pi_, ei, sequence_number, pending, dirs, files, written,
                   run, firstRun, tm>>

\* _couple_payload_item(parameter).to_bru()
RenderItem ==
    /\ pc = "render"
    /\ tm.kind = "item"
    /\ out' = Bind(CoupleLeaf(tm.payload[1]), LAMBDA item : Ok(<<PayloadItemToBru(item)>>))
    /\ pc' = "rendered"
    /\ UNCHANGED <<raw, api, err, pi_, ei, sequence_number, pending, dirs, files, written,
                   run, firstRun, tm>>

NextRender ==
    \/ RenderBody
    \/ RenderEndpoint
    \/ RenderItem

SpecRender == InitRender /\ [][NextRender]_vars

(***************************************************************************)
(* The reference resolver on its own: _schema_from_ref is called with a    *)
(* reference of up to MaxRefLen keys on a document without paths.          *)
(***************************************************************************)
MaxRefLen == 3

\* The keys of the references: those on the way to a component schema, and
\* one that no mapping of the document has.
RefKeys == {"components", "schemas", "Item", "missing"}

\* The reference string '#/k1/k2/...' of the keys
RefOf(keys) == <<"#", "/">> \o Flatten([i \in DOMAIN keys |-> <<keys[i], "/">>])

RefInputs ==
    {[kind |-> "ref", keys |-> ks, ref |-> RefOf(ks)] :
        ks \in UNION {[1..n -> RefKeys] : n \in 0..MaxRefLen}}

InitResolve ==
    /\ tm \in RefInputs
    /\ out = Ok(EmptyText)
    /\ pc = "resolve"
    /\ raw = RawSchema(<<>>)
    /\ api = <<>>
    /\ err = ""
    /\ pi_ = 1
    /\ ei = 0
    /\ sequence_number = 0
    /\ pending = None
    /\ dirs = {}
    /\ files = NoFiles
    /\ written = <<>>
    /\ run = 1
    /\ firstRun = NoFiles

\* self._schema_from_ref(rel_path)
ResolveRef ==
    /\ pc = "resolve"
    /\ tm.kind = "ref"
    /\ out' = SchemaFromRef(raw, tm.ref)
    /\ pc' = "resolved"
    /\ UNCHANGED <<raw, api, err, pi_, ei, sequence_number, pending, dirs, files, written,
                   run, firstRun, tm>>

NextResolve == ResolveRef

SpecResolve == InitResolve /\ [][NextResolve]_vars

(***************************************************************************)
(* Properties of the pipeline.                                             *)
(***************************************************************************)
\* The endpoints of the parsed API, in traversal order.
ApiEndpoints == Flatten([p \in DOMAIN api |-> api[p].val.endpoints])

\* The sequence number of the k-th document of the run.
SequenceOf(k) == Get(Get(written[k].endpoint.meta).sequence)

\* The lines of a text as strings.
Strings(text) == [i \in DOMAIN text |-> Cat(text[i])]

\* The lines between the header line at i and the next closing line.
BlockBody(lines, i) ==
    SubSeq(lines, i + 1,
           (CHOOSE j \in (i + 1)..Len(lines) :
               lines[j] = "}" /\ \A k \in (i + 1)..(j - 1) : lines[k] # "}") - 1)

\* The bodies of the blocks of a text that have the header.
Blocks(text, header) ==
    {BlockBody(Strings(text), i) : i \in {k \in DOMAIN text : Cat(text[k]) = header}}

\* The run has ended, and has ended in couple() if it failed.
RunEnded == pc = "done" \/ (pc = "failed" /\ api # <<>>)

C2_CoupleCompletes ==
    /\ pc = "failed" => api = <<>>
    /\ pc = "done" =>
          /\ Len(written) = Len(Entries(raw))
          /\ \A k \in DOMAIN written : written[k].file = GetMethodFilename(ApiEndpoints[k])

\* C3: the file paths of the documents of one run differ: distinct (path,
\* method) entries of the schema get distinct files, and no write of a run
\* goes to the file of an earlier write of that run.
C3_DistinctFiles ==
    /\ \A i, j \in DOMAIN ApiEndpoints :
          i # j => GetMethodFilename(ApiEndpoints[i]) # GetMethodFilename(ApiEndpoints[j])
    /\ \A i, j \in DOMAIN written : i # j => written[i].file # written[j].file

\* The method keys that name GET, POST, PUT or DELETE.
KnownMethodKeys == {"get", "GET", "post", "POST", "put", "PUT", "delete", "DELETE"}

HasUnknownMethod == \E i \in DOMAIN Entries(raw) : Entries(raw)[i].name \notin KnownMethodKeys

\* C4: a schema with a method key other than GET, POST, PUT, DELETE makes
\* parse() fail with an error: no API model is returned, with or without the
\* endpoint, and nothing is coupled or written.
C4_UnknownMethodFails ==
    (HasUnknownMethod /\ pc # "parse") =>
        /\ pc = "failed"
        /\ err # ""
        /\ api = <<>>
        /\ written = <<>>
        /\ files = NoFiles

\* parse() has failed with the KeyError of _method_parser on the second
\* method of the first of two paths.
C4_Witness ==
    /\ pc = "failed"
    /\ err = "KeyError"
    /\ Len(raw.paths) = 2
    /\ Len(raw.paths[1].methods) = 2
    /\ raw.paths[1].methods[2].name = "options"

NotIndent(tok) == tok # INDENT
JsonTokens(lines) == SelectSeq(Flatten(lines), NotIndent)

\* int(tok)
IntOf(tok) == CHOOSE n \in 0..MaxInt : ToString(n) = tok

\* The value at the head of the tokens, and the tokens after it.
RECURSIVE LoadsValue(_)
RECURSIVE LoadsMembers(_, _)
LoadsValue(toks) ==
    CASE Head(toks) = "{}" -> [val |-> JDict(<<>>), rest |-> Tail(toks)]
      [] Head(toks) = "{" -> LoadsMembers(Tail(toks), <<>>)
      [] Head(toks) = "\"" -> [val |-> JLeaf(JStr(toks[2])), rest |-> SubSeq(toks, 4, Len(toks))]
      [] Head(toks) = "null" -> [val |-> JLeaf(JNull), rest |-> Tail(toks)]
      [] Head(toks) = "true" -> [val |-> JLeaf(JBool(TRUE)), rest |-> Tail(toks)]
      [] Head(toks) = "false" -> [val |-> JLeaf(JBool(FALSE)), rest |-> Tail(toks)]
      [] OTHER -> [val |-> JLeaf(JInt(IntOf(Head(toks)))), rest |-> Tail(toks)]

\* The members of an object up to its closing brace: "key": value, ...
LoadsMembers(toks, acc) ==
    IF Head(toks) = "}" THEN [val |-> JDict(acc), rest |-> Tail(toks)]
    ELSE IF Head(toks) = "," THEN LoadsMembers(Tail(toks), acc)
    ELSE With(LoadsValue(SubSeq(toks, 5, Len(toks))),
              LAMBDA r : LoadsMembers(r.rest, DictSet(acc, toks[2], r.val)))

\* The lines of the literal in a body block: the lines between the header
\* and the closing line, without the indent of the block.
LiteralLines(text) == [i \in 1..(Len(text) - 2) |-> Tail(text[i + 1])]

\* The document a payload stands for: each leaf name with its default, each
\* nested object's name with the document of its parameters, in payload order.
RECURSIVE DefaultsDocument(_)
DefaultsDocument(payload) ==
    JDict([i \in DOMAIN payload |->
             [key |-> payload[i].name,
              val |-> IF payload[i].kind = "NestedObject"
                      THEN DefaultsDocument(payload[i].parameters)
                      ELSE JLeaf(payload[i].default)]])

(***************************************************************************)
(* Properties of the serializer.                                           *)
(***************************************************************************)
\* C6: the JSON literal of the body block rendered for a JSON payload that
\* is not empty, read back, is the document of the payload: leaf name to
\* default (null when there is none), nested object name to its own
\* document, keys in payload order.
C6_JsonRoundTrip ==
    (pc = "rendered" /\ tm.kind = "payload" /\ tm.payload # <<>>) =>
        /\ IsOk(out)
        /\ Cat(out.val[1]) = "body:json {"
        /\ Cat(out.val[Len(out.val)]) = "}"
        /\ \A i \in 2..(Len(out.val) - 1) : Head(out.val[i]) = INDENT
        /\ LoadsValue(JsonTokens(LiteralLines(out.val)))
              = [val |-> DefaultsDocument(tm.payload), rest |-> <<>>]

\* The payload with a = 1 and the nested object b with c = "x" is rendered
\* to the literal of {"a": 1, "b": {"c": "x"}}.
C6_Witness ==
    /\ pc = "rendered"
    /\ tm.kind = "payload"
    /\ tm.payload = <<Parameter("a", "integer", None, FALSE, JInt(1)),
                      NestedObject("b", <<Parameter("c", "string", None, FALSE, JStr("x"))>>)>>
    /\ Strings(out.val) = <<"body:json {", "  {", "    \"a\": 1,", "    \"b\": {",
                            "      \"c\": \"x\"", "    }", "  }", "}">>

\* The first (path, method) entry of the schema; its document is the first
\* the run writes.
FirstEntry == Entries(raw)[1]

\* C7: the run on a schema with GET /items, id a required query parameter of
\* type string without default and limit an optional one with default 10,
\* writes a document whose query block has the lines "id: " and
\* "~limit: 10".
C7_QueryLines ==
    (RunEnded /\ FirstEntry = [key |-> PathItems, name |-> "get", data |-> DataQuery]) =>
        /\ written # <<>>
        /\ written[1].file = <<"items", "get.bru">>
        /\ Blocks(written[1].text, "query {") = {<<"  id: ", "  ~limit: 10">>}

\* The forms a placeholder segment can take.
PlaceholderForms == {"{id}", "{{id}}"}

\* C8: the run on a schema with the path /items/{id}, id a path parameter,
\* writes a document with a vars:pre-request block holding the line "id: ",
\* and the url line, the meta name and the directory name have the
\* placeholder in one and the same form.
C8_PathPlaceholder ==
    (RunEnded /\ FirstEntry.key = PathItemId /\ FirstEntry.data \in {DataPathParam, DataPathJson}) =>
        /\ written # <<>>
        /\ Blocks(written[1].text, "vars:pre-request {") = {<<"  id: ">>}
        /\ \E form \in PlaceholderForms :
              /\ SubSeq(written[1].file, 1, 2) = <<"items", form>>
              /\ "  url: {{host}}/items/" \o form \o "/" \in Range(Strings(written[1].text))
              /\ "  name: " \o form \in Range(Strings(written[1].text))

\* C9: the run on a schema with a POST whose body is
\* application/x-www-form-urlencoded with the required properties name and
\* age writes a document with a body:form-urlencoded block of the two lines
\* "name: " and "age: ", and no JSON body.
C9_FormBody ==
    (RunEnded /\ FirstEntry.name = "post" /\ FirstEntry.data = DataForm) =>
        /\ written # <<>>
        /\ Blocks(written[1].text, "body:form-urlencoded {") = {<<"  name: ", "  age: ">>}
        /\ Blocks(written[1].text, "body:json {") = {}

\* The block a header line opens, "" for a line that opens none.
BlockKind(line) ==
    CASE Cat(line) = "meta {" -> "meta"
      [] Cat(line) \in {"get {", "post {", "put {", "delete {"} -> "config"
      [] Cat(line) = "headers {" -> "headers"
      [] Cat(line) = "query {" -> "query"
      [] Cat(line) \in {"body:json {", "body:form-urlencoded {", "body:none {"} -> "body"
      [] Cat(line) \in {"vars:pre-request {", "vars:post-request {"} -> "vars"
      [] Cat(line) = "docs {" -> "docs"
      [] OTHER -> ""

BlockKinds == <<"meta", "config", "headers", "query", "body", "vars", "docs">>

\* The place of a block in the emission order.
Rank(kind) == CHOOSE i \in DOMAIN BlockKinds : BlockKinds[i] = kind

\* The blocks of a text, in the order of their header lines.
OpensBlock(kind) == kind # ""
KindsOf(text) == SelectSeq([i \in DOMAIN text |-> BlockKind(text[i])], OpensBlock)

\* A part of the endpoint has content: it is set, and headers have a content
\* type, query has parameters, body has properties, vars have items, docs
\* have a description.
HasContent(e, kind) ==
    CASE kind = "meta" -> IsSome(e.meta)
      [] kind = "config" -> IsSome(e.config)
      [] kind = "headers" -> IsSome(e.headers) /\ IsSome(Get(e.headers).content_type)
      [] kind = "query" -> IsSome(e.query) /\ Get(e.query).params # <<>>
      [] kind = "body" -> IsSome(e.body) /\ Get(e.body).props # <<>>
      [] kind = "vars" -> IsSome(e.vars) /\ (Get(e.vars).pre_request # <<>>
                                               \/ Get(e.vars).post_request # <<>>)
      [] kind = "docs" -> IsSome(e.docs) /\ IsSome(Get(e.docs).description)

\* As HasContent, a body having content when it has properties or json_data.
HasContentOrData(e, kind) ==
    IF kind = "body" THEN IsSome(e.body) /\ (Get(e.body).props # <<>> \/ Get(e.body).json_data # <<>>)
    ELSE HasContent(e, kind)

\* The rendered endpoint has its blocks in the emission order, a block is
\* there exactly when Content says so, and no block is empty.
BlocksFollow(Content(_, _)) ==
    (pc = "rendered" /\ tm.kind = "endpoint" /\ IsOk(out)) =>
        /\ \A i, j \in DOMAIN KindsOf(out.val) :
              i < j => Rank(KindsOf(out.val)[i]) <= Rank(KindsOf(out.val)[j])
        /\ \A kind \in Range(BlockKinds) :
              kind \in Range(KindsOf(out.val)) <=> Content(Get(tm.endpoint), kind)
        /\ \A i \in DOMAIN out.val :
              BlockKind(out.val[i]) # "" => Cat(out.val[i + 1]) # "}"

OneTrailingNewline(text) ==
    /\ Len(text) >= 2
    /\ text[Len(text)] = EmptyLine
    /\ Len(text) > 2 => text[Len(text) - 1] # EmptyLine

\* Every block but the first follows the closing line of the block before
\* and one blank line, and a blank line is nowhere else but at the end.
OneBlankLineBetween(text) ==
    /\ \A i \in DOMAIN text :
          (i > 1 /\ BlockKind(text[i]) # "") =>
              /\ i >= 3
              /\ text[i - 1] = EmptyLine
              /\ Cat(text[i - 2]) = "}"
    /\ \A i \in 1..(Len(text) - 1) :
          text[i] = EmptyLine => (i > 1 /\ Cat(text[i - 1]) = "}" /\ BlockKind(text[i + 1]) # "")

\* C11: in a rendered document any two consecutive blocks, vars:pre-request
\* followed by vars:post-request included, are separated by exactly one blank
\* line, and the document ends with exactly one trailing newline.
C11_OneBlankLine ==
    (pc = "rendered" /\ tm.kind = "endpoint" /\ IsOk(out)) =>
        /\ OneTrailingNewline(out.val)
        /\ (Len(out.val) > 2 => OneBlankLineBetween(out.val))

(***************************************************************************)
(* Properties of the parser and the coupler on unsupported input.          *)
(***************************************************************************)
\* The endpoint has a parameter with placement header.
HasHeaderParam(endpoint) ==
    \E i \in DOMAIN QueryParameters(endpoint) :
        QueryParameters(endpoint)[i].placement = Some("HEADER")

\* C12: an endpoint that has a parameter with placement header is rejected by
\* the coupler: couple() fails with an error on it, no document is written
\* for it with the parameter left out.
C12_HeaderRejected ==
    /\ \A k \in DOMAIN written : ~HasHeaderParam(ApiEndpoints[k])
    /\ pc = "done" => \A k \in DOMAIN ApiEndpoints : ~HasHeaderParam(ApiEndpoints[k])

\* The entries whose JSON body has a property without type, allOf and $ref.
HasLooseProperty == \E i \in DOMAIN Entries(raw) : Entries(raw)[i].data = DataLoose

\* C13: a JSON body property that has no type, no allOf and no $ref makes
\* parse() fail with an error; no API model is returned whose body payload
\* lacks the property.
C13_LoosePropertyFails ==
    (HasLooseProperty /\ pc # "parse") =>
        /\ pc = "failed"
        /\ err # ""
        /\ api = <<>>
        /\ written = <<>>

\* C14: after a run, every file below the root folder holds the complete
\* rendered document of an endpoint of the run that is written to it; when
\* building or rendering an endpoint has failed, there is no empty or
\* truncated file for it.
C14_NoPartialFile ==
    pc \in {"done", "failed"} =>
        \A f \in DOMAIN files :
            /\ files[f] # EmptyText
            /\ \E k \in DOMAIN written : written[k].file = f /\ written[k].text = files[f]

\* C15: parse() writes a path through unchanged, a path with "{" included:
\* the key in API.paths is the path string of the schema, and Path.path and
\* the path of every endpoint of the entry are the pathlib.Path of that
\* string, with the placeholder as the schema has it.
C15_PathUnchanged ==
    api # <<>> =>
        \A i \in DOMAIN api :
            /\ api[i].key = raw.paths[i].key
            /\ api[i].val.path = PathOf(raw.paths[i].key)
            /\ \A j \in DOMAIN api[i].val.endpoints :
                  api[i].val.endpoints[j].path = PathOf(raw.paths[i].key)

(***************************************************************************)
(* Properties of the reference resolver.                                   *)
(***************************************************************************)
\* The mapping reached from cur by the keys, None when a key on the way is
\* missing.
RECURSIVE Reached(_, _)
Reached(cur, keys) ==
    IF keys = <<>> \/ IsNone(cur) THEN cur
    ELSE Reached(IF Head(keys) \in DOMAIN Get(cur) THEN Some(Get(cur)[Head(keys)]) ELSE None,
                 Tail(keys))

\* C16: the resolver returns for '#/a/b/c' the mapping reached by the keys a,
\* b, c from the root of the document, and returns None, without raising,
\* when a key on the way is missing, whatever the length of the reference and
\* the position of the missing key.
C16_MissingKeyGivesNone ==
    pc = "resolved" => out = Ok(Reached(Some(raw), tm.keys))

(***************************************************************************)
(* Properties of the coupled endpoint.                                     *)
(***************************************************************************)
\* C17: every document the coupler generates has a config block whose auth
\* kind is "none": the config of the endpoint has the auth type none and the
\* text has the line "  auth: none", whatever the method, the parameters and
\* the body.
C17_AuthNone ==
    \A k \in DOMAIN written :
        /\ Get(written[k].endpoint.config).auth_type = Some("none")
        /\ "  auth: none" \in Range(Strings(written[k].text))

\* The body kind of the k-th entry of the schema, as the parser derives it
\* from the raw content type: NONE without a request body.
RawBodyKind(k) ==
    IF IsNone(Entries(raw)[k].data.requestBody) THEN "NONE"
    ELSE from_content_type(Some(PStr(Get(Entries(raw)[k].data.requestBody).content[1].ctype)))

\* The kind as a field holds it: absent for NONE.
KindField(kind) == IF kind = "NONE" THEN None ELSE Some(kind)

\* C18: the body kind the coupler puts into Config and into RequestBody of an
\* endpoint is the kind the parser derived from the raw content type (form
\* url encoded for application/x-www-form-urlencoded, JSON for any other,
\* none without a request body), Headers.contentType is set exactly when the
\* endpoint has a body, and coupling does not fail on an endpoint for having
\* no body.
C18_BodyKind ==
    /\ \A k \in DOMAIN written :
          /\ Get(written[k].endpoint.config).body_type = KindField(RawBodyKind(k))
          /\ Get(written[k].endpoint.body).body_type = KindField(RawBodyKind(k))
          /\ IsSome(Get(written[k].endpoint.headers).content_type) <=> RawBodyKind(k) # "NONE"
    /\ (pc = "failed" /\ api # <<>>) => IsSome(api[pi_].val.endpoints[ei].body)

\* The final segment of a path, "" for the root.
FinalSegment(path) == IF path = <<>> THEN "" ELSE Cat(path[Len(path)])

\* C19: Meta.endpointName of every endpoint is the final segment of the
\* endpoint's path without its leading separator, also when the segment has
\* a dot or is a placeholder, and the document has it in the name line.
C19_EndpointName ==
    \A k \in DOMAIN written :
        /\ Get(written[k].endpoint.meta).endpoint_name = Some(FinalSegment(ApiEndpoints[k].path))
        /\ "  name: " \o FinalSegment(ApiEndpoints[k].path) \in Range(Strings(written[k].text))

(***************************************************************************)
(* Properties of the parser on schemas that refer back to themselves.      *)
(***************************************************************************)
\* The depth of the NestedObjects of a payload: 0 without one.
RECURSIVE NestingOf(_)
NestingOf(payload) ==
    IF payload = <<>> THEN 0
    ELSE With(NestingOf(Tail(payload)),
              LAMBDA rest :
                  IF Head(payload).kind # "NestedObject" THEN rest
                  ELSE With(1 + NestingOf(Head(payload).parameters),
                            LAMBDA here : IF here > rest THEN here ELSE rest))

\* A JSON body of the schema refers to a schema with a property that refers
\* back to the schema itself.
HasCyclicBody == \E i \in DOMAIN Entries(raw) : Entries(raw)[i].data = DataCyclic

RawParameters(k) ==
    IF IsNone(Entries(raw)[k].data.parameters) THEN <<>>
    ELSE Get(Entries(raw)[k].data.parameters)

\* The name a reference to a component schema ends with.
RefName(ref) == ref[Len(ref)]

\* A raw parameter that cannot be classified: its allOf refers to a schema
\* without enum, or it has no allOf and its 'in' is none of path, query and
\* header.
Unclassified(p) ==
    IF IsSome(p.schema.allOf) THEN ~Components[RefName(Get(p.schema.allOf))].hasEnum
    ELSE p.in_ \notin {Some("path"), Some("query"), Some("header")}

HasUnclassified ==
    \E k \in DOMAIN Entries(raw) :
        \E i \in DOMAIN RawParameters(k) : Unclassified(RawParameters(k)[i])

DefaultTexts(d) ==
    CASE d.k = "null" -> {""}
      [] d.k = "int" -> {ToString(d.i)}
      [] d.k = "str" -> {d.s}
      [] d.k = "bool" -> IF d.b THEN {"true", "True"} ELSE {"false", "False"}

\* C22: a leaf item is rendered as marker, name, ": " and default: the marker
\* is "~" exactly when the item is not selected, which the coupler decides by
\* required, and the text after ": " is the default whenever there is one,
\* the defaults 0 and false included, and empty only without a default.
C22_LeafLine ==
    (pc = "rendered" /\ tm.kind = "item") =>
        /\ IsOk(out)
        /\ \E text \in DefaultTexts(tm.payload[1].default) :
              Cat(out.val[1]) = (IF tm.payload[1].required THEN "" ELSE "~")
                                  \o tm.payload[1].name \o ": " \o text

(***************************************************************************)
(* Properties of the required flag of body properties.                     *)
(***************************************************************************)
\* The data of the property of the schema that has the name.
PropNamed(schema, name) ==
    (CHOOSE p \in Range(Get(schema.properties)) : p.name = name).data

\* The name is in the required list of the schema; no list, not required.
DeclaredRequired(schema, name) ==
    IsSome(schema.required) /\ name \in Range(Get(schema.required))

\* Every leaf of the payload has the required flag its declaring schema
\* gives it, the leaves of a nested object that of the schema referred to.
RECURSIVE RequiredAsDeclared(_, _)
RequiredAsDeclared(schema, payload) ==
    \A i \in DOMAIN payload :
        IF payload[i].kind = "NestedObject"
        THEN RequiredAsDeclared(
                 Components[RefName(Get(PropertyRef([name |-> payload[i].name,
                                                     data |-> PropNamed(schema, payload[i].name)])))],
                 payload[i].parameters)
        ELSE payload[i].required = DeclaredRequired(schema, payload[i].name)

\* Every leaf of the properties of a body is selected exactly when required.
RECURSIVE SelectedAsRequired(_)
SelectedAsRequired(props) ==
    \A i \in DOMAIN props :
        IF props[i].cls = "RequestNestedItem" THEN SelectedAsRequired(props[i].items)
        ELSE props[i].selected = props[i].required

\* The schema the JSON body of the k-th entry refers to.
BodySchemaOf(k) ==
    Components[RefName(Get(Get(Entries(raw)[k].data.requestBody).content[1].schema.ref))]

\* C23: every leaf of a parsed JSON body payload, at every depth, a property
\* that refers to an enum included, is required exactly when its name is in
\* the required list of the schema that declares it, and is selected in the
\* target model exactly when it is required.
C23_RequiredFromSchema ==
    /\ \A k \in DOMAIN ApiEndpoints :
          (IsSome(ApiEndpoints[k].body) /\ RawBodyKind(k) = "JSON") =>
              RequiredAsDeclared(BodySchemaOf(k), Get(ApiEndpoints[k].body).payload)
    /\ \A k \in DOMAIN written : SelectedAsRequired(Get(written[k].endpoint.body).props)

(***************************************************************************)
(* Properties of the description of an endpoint.                           *)
(***************************************************************************)
\* The summary of the entry when it is present and not empty, else the
\* description field of the entry.
SummaryOrDescription(data) ==
    IF IsSome(data.summary) /\ Get(data.summary) # "" THEN data.summary ELSE data.description

\* C24: parsing an entry succeeds with and without a summary, and the
\* description of the endpoint is the summary of the entry when that is
\* present and not empty, and the description field of the entry otherwise.
C24_DescriptionFallback ==
    /\ \A k \in DOMAIN ApiEndpoints :
          ApiEndpoints[k].description = SummaryOrDescription(Entries(raw)[k].data)
    /\ (Len(Entries(raw)) = 1 /\ FirstEntry.data \in {DataDescribed, DataEmptySummary}
          /\ pc # "parse") =>
              /\ api # <<>>
              /\ err # "TypeError"

\* ---- C25 ----
\* Nothing of the output exists yet in this run: no file, no folder, no
\* write recorded, no file opened
NothingWritten ==
    /\ written = <<>>
    /\ pending = None
    /\ run = 1 => (files = NoFiles /\ dirs = {})

\* C25: no output file or directory is written before the whole input
\* schema has been parsed successfully: while parse() has not returned the
\* API model nothing of the output exists, the first write of a run happens
\* with the complete API model at hand, and a run whose parse() failed, on
\* whatever path, method, parameter or property, ends with zero files and
\* zero folders written
C25_ParseBeforeWrite ==
    /\ pc = "parse" => NothingWritten
    /\ (written # <<>> \/ pending # None) => (api # <<>> /\ IsOk(Parse(raw)) /\ api = Parse(raw).val)
    /\ (pc = "failed" /\ api = <<>>) =>
            /\ NothingWritten
            /\ files = NoFiles
            /\ dirs = {}

\* A run whose first endpoint parses and whose later one does not: parse()
\* failed and nothing was written
C25_Witness ==
    /\ pc = "failed"
    /\ api = <<>>
    /\ Len(Entries(raw)) > 1
    /\ FirstEntry.data = DataJson
    /\ FirstEntry.name \in {"post", "put"}
    /\ files = NoFiles
    /\ dirs = {}

====
